---- MODULE Spec2Model ----
(***************************************************************************)
(* Model of falcon::Logger (src/src/include/falcon/logger.h): the          *)
(* thread-local composition state, the AutoEnd statement guard behind the  *)
(* LOG(level) macro, the BlockEnd guard behind the LOG_BLOCK(level) macro, *)
(* the category API and Logger::commit.                                    *)
(*                                                                         *)
(* LogSystem (falcon/logsystem.h) is not part of the sources at hand: its  *)
(* run-time threshold level(), its log() entry point and its consumer are  *)
(* modelled from the specification as a plain threshold and a hand-over of *)
(* the committed message for dispatch. Spec, SpecMT and SpecRaw stop at    *)
(* that hand-over. SpecFilter and SpecDispatch follow the message through  *)
(* the queue, the listener registry and the listeners, all of them from    *)
(* the specification, and the category filter helper of Logger from the    *)
(* doc comment in logger.h and the specification (logger.cpp is not at     *)
(* hand either).                                                           *)
(*                                                                         *)
(* The fields named "obs" and the variables "handed" and "gone" are the    *)
(* observer's notes: what a handle was given and what it did, the message  *)
(* the step just taken passed to LogSystem::log(), and the handle the step *)
(* just taken let go out of scope; "told" is the name last passed to the   *)
(* category API. No action reads them to decide what the program does.     *)
(***************************************************************************)
EXTENDS Integers, Sequences, FiniteSets, TLC

(* ----- log levels: logger.h lines 34-40 ----- *)
LLDISABLE == -1
LLCRIT == 0
LLERR == 1
LLWARN == 2
LLINFO == 3
LLDEBUG == 4
LLTRACE == 5

(* ----- bounds of the model ----- *)
\* handles alive at once on one thread (call sites nested in one another)
MaxDepth == 2
\* values streamed through one handle
MaxVals == 2
\* values a thread's composer holds
MaxText == 3
\* calls of complete() made by hand on one BlockEnd
MaxCalls == 2
\* messages one thread commits where the dispatch is followed
MaxMsgs == 2

\* category overrides applied while one statement is open
MaxCats == 2
\* calls of Logger::categoryFilter
MaxInstalls == 2

Threads == {1, 2}

\* the thread whose call sites nest, throw and misuse the logger
Main == CHOOSE t \in Threads : \A u \in Threads : t <= u

\* values of FALCON_MIN_LOG_LEVEL the program may have been built with
BuildLevels == {LLDISABLE, LLWARN, LLTRACE}
\* values the run-time threshold is set to
RuntimeLevels == {LLWARN, LLTRACE}

\* the call sites of thread t: __FILE__, __LINE__ and the level logged at
SitesOf(t) ==
    {[file |-> "a.cpp", line |-> 10 + t, lvl |-> LLWARN],
     [file |-> "b.cpp", line |-> 20 + t, lvl |-> LLDEBUG]}

\* the k-th value streamed through the handle at depth d of thread t (d = 0:
\* streamed into the logger with no handle open)
Value(t, d, k) == <<t, d, k>>

\* the first n values streamed through the handle at depth d of thread t
Values(t, d, n) == [k \in 1..n |-> Value(t, d, k)]

\* the call site in a function that thread t calls while a statement or a
\* block of its own is open (an operand of a chain, a call in a block body)
InnerSite(t) == [file |-> "c.cpp", line |-> 30 + t, lvl |-> LLDEBUG]

\* the names thread t gives its standing category
CatsOf(t) == IF t = 1 THEN {"A1", "C1"} ELSE {"A2", "C2"}

\* the names thread t passes to LOG_CAT, the empty name among them
TempCatsOf(t) == IF t = 1 THEN {"B1", ""} ELSE {"B2", ""}

\* the names thread t passes to setTempCategory in a function it calls
CalledCatsOf(t) == IF t = 1 THEN {"D1"} ELSE {"D2"}

VARIABLES
    minLogLevel,     \* FALCON_MIN_LOG_LEVEL, fixed when the program is built
    level,           \* LogSystem::level(), the run-time threshold
    handed,          \* observer: the message the last step passed to LogSystem::log()
    m_composer,      \* thread_local std::ostringstream
    m_category,      \* thread_local std::string
    m_tempCategory,  \* thread_local std::string
    m_msgFile,       \* thread_local std::string
    m_msgLine,       \* thread_local int
    m_msgLevel,      \* thread_local LOGLEVEL
    stack,           \* per thread: the AutoEnd / BlockEnd objects alive, innermost last
    nullDeref,       \* a member was called through a null m_obj
    crashed,         \* the process died of it
    gone,            \* observer: the handle the last step let go out of scope
    told,            \* observer: per thread, the name last passed to the category API
    queue,           \* LogSystem: messages committed and not yet dispatched
    registry,        \* LogSystem: the listeners registered
    lsLevel,         \* per listener: its level threshold
    lsCategory,      \* per listener: the categories its filter accepts
    received,        \* per listener: the messages its onMessage was called with
    m_proxy,         \* Logger: the listener of the active category filter
    m_proxyBaseLevel,\* Logger: the level saved when the filter was installed
    installed,       \* observer: filters installed so far, and what was there before the last
    promise,         \* TestListener::m_msgPromise
    raised,          \* exceptions that left an onMessage
    emitted,         \* per thread: messages committed where the dispatch is followed
    snapshotAt       \* LogSystem: when the set of listeners of a message is fixed

vars ==
    <<minLogLevel, level, handed, m_composer, m_category, m_tempCategory,
      m_msgFile, m_msgLine, m_msgLevel, stack, nullDeref, crashed, gone,
      told, queue, registry, lsLevel, lsCategory, received, m_proxy,
      m_proxyBaseLevel, installed, promise, raised, emitted, snapshotAt>>

\* what belongs to LogSystem, its listeners and the category filter helper
logsys ==
    <<queue, registry, lsLevel, lsCategory, received, m_proxy,
      m_proxyBaseLevel, installed, promise, raised, emitted, snapshotAt>>

NoHandle == [kind |-> "none"]

NoMessage == [thread |-> 0]

(* ----- listeners ----- *)
\* Logger::m_dflt, the default stream listener
Dflt == 1

\* the TestListener of the test fixture (m_catcher)
Catcher == 2

\* the listener made by the n-th call of categoryFilter
Proxy(n) == Catcher + n

NoListener == 0

Listeners == {Dflt, Catcher} \cup {Proxy(n) : n \in 1..MaxInstalls}

\* the regular expressions given to categoryFilter, each as the set of the
\* names it matches
Filters == {{"B1"}, {"", "B1", "B2"}}

\* the specification leaves open whether the consumer serves the listeners
\* registered when the message was queued or those registered when it is
\* dispatched
SnapshotPolicies == {"enqueue", "dispatch"}

InitOf(policies) ==
    /\ snapshotAt \in policies
    /\ minLogLevel \in BuildLevels
    /\ level = LLTRACE
    /\ handed = NoMessage
    /\ m_composer = [t \in Threads |-> <<>>]
    /\ m_category = [t \in Threads |-> ""]
    /\ m_tempCategory = [t \in Threads |-> ""]
    /\ m_msgFile = [t \in Threads |-> ""]
    /\ m_msgLine = [t \in Threads |-> 0]
    /\ m_msgLevel = [t \in Threads |-> LLCRIT]
    /\ stack = [t \in Threads |-> <<>>]
    /\ nullDeref = FALSE
    /\ crashed = FALSE
    /\ gone = NoHandle
    /\ told = [t \in Threads |-> ""]
    /\ queue = <<>>
    /\ registry = {Dflt}
    /\ lsLevel = [l \in Listeners |-> LLTRACE]
    /\ lsCategory = [l \in {} |-> {}]
    /\ received = [l \in Listeners |-> <<>>]
    /\ m_proxy = NoListener
    /\ m_proxyBaseLevel = LLTRACE
    /\ installed = [n |-> 0, dfltLevel |-> LLTRACE, level |-> LLTRACE,
                    replaced |-> NoListener]
    /\ promise = NoMessage
    /\ raised = 0
    /\ emitted = [t \in Threads |-> 0]

\* where the hand-over to LogSystem is the last thing looked at
Init == InitOf({"dispatch"})

\* where the dispatch is followed
InitLogSystem == InitOf(SnapshotPolicies)

(* ----- helpers on the stack of live handles ----- *)
Depth(t) == Len(stack[t])

Top(t) == stack[t][Len(stack[t])]

Push(t, h) == [stack EXCEPT ![t] = Append(@, h)]

Pop(t) == [stack EXCEPT ![t] = SubSeq(@, 1, Len(@) - 1)]

SetTop(t, h) == [stack EXCEPT ![t] = [@ EXCEPT ![Len(@)] = h]]

\* user code runs on thread t: between statements, while the operands of a
\* LOG(...) << ... chain are evaluated, or inside the body of a LOG_BLOCK
InUserCode(t) ==
    \/ Depth(t) = 0
    \/ Depth(t) > 0 /\ Top(t).pc \in {"chain", "body", "raw"}

\* a faulty gate: both comparisons strict, the level itself shut out
Gate_Strict(lvl) == minLogLevel > lvl /\ level > lvl

\* a faulty gate: the build-time minimum left out
Gate_RuntimeOnly(lvl) == level >= lvl

(* ----- the gate: FALCON_MIN_LOG_LEVEL >= lvl && obj.level() >= lvl ----- *)
Gate(lvl) == minLogLevel >= lvl /\ level >= lvl

(* ----- Logger::commit, lines 277-287 ----- *)
\* the category the message is logged under
CommitCategory(t) ==
    IF m_tempCategory[t] = "" THEN m_category[t] ELSE m_tempCategory[t]

\* the message built from the thread's pending state; obs notes the handle
\* whose destructor or complete() made the call and the standing category then
CommitMessage(t, h) ==
    [file |-> m_msgFile[t], line |-> m_msgLine[t], level |-> m_msgLevel[t],
     category |-> CommitCategory(t), text |-> m_composer[t], thread |-> t,
     obs |-> [kind |-> h.kind, depth |-> Depth(t), file |-> h.obs.file,
              line |-> h.obs.line, lvl |-> h.lvl, allowed |-> h.obs.allowed,
              n |-> h.obs.n, cats |-> h.obs.cats, standing |-> m_category[t]]]

\* LogSystem::log(): the message is handed over for dispatch
Log(msg) == handed' = msg

\* a step that calls nothing of LogSystem hands over no message
NoLog == handed' = NoMessage

\* readyStream(): m_composer.clear(); m_composer.str("")
ReadyStream(t) == [m_composer EXCEPT ![t] = <<>>]

\* m_tempCategory.clear() in the else branch; it is empty already in the other
TempCategoryAfterCommit(t) == [m_tempCategory EXCEPT ![t] = ""]

Commit(t, h) ==
    /\ Log(CommitMessage(t, h))
    /\ m_tempCategory' = TempCategoryAfterCommit(t)
    /\ m_composer' = ReadyStream(t)

(* ----- the observer's notes on one handle ----- *)
NewObs(t, site) ==
    [file |-> site.file, line |-> site.line,
     allowed |-> (minLogLevel >= site.lvl /\ level >= site.lvl),
     n |-> 0, cats |-> <<>>,
     commits |-> 0, calls |-> 0, bodyRuns |-> 0, tested |-> FALSE,
     admitted |-> FALSE]

\* what is noted of a handle when it goes out of scope
Gone(t, h, how) ==
    [kind |-> h.kind, thread |-> t, exit |-> how, lvl |-> h.lvl,
     gate |-> h.gate, allowed |-> h.obs.allowed, admitted |-> h.obs.admitted,
     n |-> h.obs.n, commits |-> h.obs.commits, bodyRuns |-> h.obs.bodyRuns]

Leaves(t, h, how) == gone' = Gone(t, h, how)

NoneLeaves == gone' = NoHandle

Committed(h) == [h EXCEPT !.obs.commits = @ + 1]

(* ----- setLevel / setFile / setLine, lines 289-299 ----- *)
SetPending(t, site) ==
    /\ m_msgFile' = [m_msgFile EXCEPT ![t] = site.file]
    /\ m_msgLine' = [m_msgLine EXCEPT ![t] = site.line]
    /\ m_msgLevel' = [m_msgLevel EXCEPT ![t] = site.lvl]

(* ----- the constructor shared by AutoEnd (311-320) and BlockEnd (333-342) ----- *)
Construct(t, kind, pc, site) ==
    LET open == Gate(site.lvl)
    IN  /\ ~crashed
        /\ InUserCode(t)
        /\ Depth(t) < MaxDepth
        /\ IF open
              THEN SetPending(t, site)
              ELSE UNCHANGED <<m_msgFile, m_msgLine, m_msgLevel>>
        /\ stack' = Push(t, [kind |-> kind, m_obj |-> open, gate |-> open,
                              lvl |-> site.lvl, pc |-> pc, isTemp |-> TRUE,
                              obs |-> NewObs(t, site)])
        /\ NoLog /\ NoneLeaves
        /\ UNCHANGED <<logsys, minLogLevel, level, m_composer, m_category,
                       m_tempCategory, nullDeref, crashed, told>>

\* Logger::operator<<(const T&), lines 348-352: m_composer << v
LoggerShift(t, v) == [m_composer EXCEPT ![t] = Append(@, v)]

\* a faulty setTempCategory: one m_tempCategory for all threads
SetTempCategory_Shared(t, c) == [u \in Threads |-> c]

\* Logger::setTempCategory, lines 269-271
SetTempCategory(t, c) == [m_tempCategory EXCEPT ![t] = c]

\* the value the next << through the innermost handle streams
NextValue(t) == Value(t, Depth(t), Top(t).obs.n + 1)

(* ----- LOG(level): AutoEnd ----- *)
\* a faulty doLog(): every statement counts as open
doLog_Always(h) == TRUE

\* AutoEnd::doLog, line 323: m_obj != nullptr
doLog(h) == h.m_obj

\* AutoEnd::AutoEnd, lines 311-320
AutoEndCtor(t, site) == Construct(t, "stmt", "chain", site)

\* operator<<(const AutoEnd&, T&&), lines 393-400
AutoEndShift(t) ==
    /\ ~crashed
    /\ Depth(t) > 0
    /\ Top(t).kind = "stmt"
    /\ Top(t).obs.n < MaxVals
    /\ Len(m_composer[t]) < MaxText
    /\ m_composer' = IF doLog(Top(t))
                        THEN LoggerShift(t, NextValue(t))
                        ELSE m_composer
    /\ stack' = SetTop(t, [Top(t) EXCEPT !.isTemp = FALSE, !.obs.n = @ + 1])
    /\ NoLog /\ NoneLeaves
    /\ UNCHANGED <<logsys, minLogLevel, level, m_category, m_tempCategory,
                   m_msgFile, m_msgLine, m_msgLevel, nullDeref, crashed, told>>

\* operator<<(const AutoEnd&&, category_manipulator&&), lines 402-408: it binds
\* the AutoEnd temporary only, so it is the first << of the chain; every <<
\* returns an lvalue reference
AutoEndShiftCategory(t, c) ==
    /\ ~crashed
    /\ Depth(t) > 0
    /\ Top(t).kind = "stmt"
    /\ Top(t).isTemp
    /\ m_tempCategory' = IF doLog(Top(t))
                            THEN SetTempCategory(t, c)
                            ELSE m_tempCategory
    /\ stack' = SetTop(t, [Top(t) EXCEPT !.isTemp = FALSE,
                                         !.obs.cats = Append(@, c)])
    /\ NoLog /\ NoneLeaves
    /\ UNCHANGED <<logsys, minLogLevel, level, m_composer, m_category,
                   m_msgFile, m_msgLine, m_msgLevel, nullDeref, crashed, told>>

\* LOGGER.setTempCategory(c), lines 269-271, called by a function that is an
\* operand of the chain of an open statement: LOG(l) << LOG_CAT(a) << f()
OperandSetTempCategory(t, c) ==
    /\ ~crashed
    /\ Depth(t) > 0
    /\ Top(t).kind = "stmt"
    /\ ~Top(t).isTemp
    /\ Len(Top(t).obs.cats) < MaxCats
    /\ m_tempCategory' = SetTempCategory(t, c)
    /\ stack' = SetTop(t, [Top(t) EXCEPT !.obs.cats = Append(@, c)])
    /\ NoLog /\ NoneLeaves
    /\ UNCHANGED <<logsys, minLogLevel, level, m_composer, m_category,
                   m_msgFile, m_msgLine, m_msgLevel, nullDeref, crashed, told>>

\* AutoEnd::~AutoEnd, line 322: if(m_obj){m_obj->commit();}
AutoEndDtor(t, how) ==
    /\ ~crashed
    /\ Depth(t) > 0
    /\ Top(t).kind = "stmt"
    /\ IF Top(t).m_obj
          THEN /\ Commit(t, Top(t))
               /\ Leaves(t, Committed(Top(t)), how)
          ELSE /\ NoLog
               /\ UNCHANGED <<m_tempCategory, m_composer>>
               /\ Leaves(t, Top(t), how)
    /\ stack' = Pop(t)
    /\ UNCHANGED <<logsys, minLogLevel, level, m_category, m_msgFile, m_msgLine,
                   m_msgLevel, nullDeref, crashed, told>>

\* the full expression ends
StatementEnd(t) == AutoEndDtor(t, "normal")

\* an operand of the chain throws: the temporary is destroyed by unwinding
StatementUnwind(t) == AutoEndDtor(t, "abnormal")

(* ----- LOG_BLOCK(level): BlockEnd driven by the for statement, lines 422-425 ----- *)
\* the init-statement: BlockEnd::BlockEnd, lines 333-342
BlockEndCtor(t, site) == Construct(t, "block", "cond", site)

\* the for condition, line 424
BlockCondition(h) == minLogLevel >= h.lvl /\ level >= h.lvl /\ h.m_obj

\* the observer notes the threshold test the first time the condition is evaluated
Tested(h) ==
    IF h.obs.tested THEN h
    ELSE [h EXCEPT !.obs.tested = TRUE,
                   !.obs.admitted = (minLogLevel >= h.lvl /\ level >= h.lvl)]

\* the condition is evaluated: the body is entered or the statement is left
BlockTest(t) ==
    /\ ~crashed
    /\ Depth(t) > 0
    /\ Top(t).kind = "block"
    /\ Top(t).pc = "cond"
    /\ IF BlockCondition(Top(t))
         THEN /\ stack' = SetTop(t, [Tested(Top(t)) EXCEPT
                                        !.pc = "body", !.obs.bodyRuns = @ + 1])
              /\ NoneLeaves
         ELSE /\ stack' = Pop(t)
              /\ Leaves(t, Tested(Top(t)), "normal")
    /\ NoLog
    /\ UNCHANGED <<logsys, minLogLevel, level, m_composer, m_category,
                   m_tempCategory, m_msgFile, m_msgLine, m_msgLevel,
                   nullDeref, crashed, told>>

\* LOGGER << v in the body of a block
BlockShift(t) ==
    /\ ~crashed
    /\ Depth(t) > 0
    /\ Top(t).kind = "block"
    /\ Top(t).pc = "body"
    /\ Top(t).obs.n < MaxVals
    /\ Len(m_composer[t]) < MaxText
    /\ m_composer' = LoggerShift(t, NextValue(t))
    /\ stack' = SetTop(t, [Top(t) EXCEPT !.obs.n = @ + 1])
    /\ NoLog /\ NoneLeaves
    /\ UNCHANGED <<logsys, minLogLevel, level, m_category, m_tempCategory,
                   m_msgFile, m_msgLine, m_msgLevel, nullDeref, crashed, told>>

\* LOGGER << v with no statement or block open on the thread
StrayShift(t) ==
    /\ ~crashed
    /\ Depth(t) = 0
    /\ Len(m_composer[t]) < MaxText - MaxVals
    /\ m_composer' = LoggerShift(t, Value(t, 0, Len(m_composer[t]) + 1))
    /\ NoLog /\ NoneLeaves
    /\ UNCHANGED <<logsys, minLogLevel, level, m_category, m_tempCategory,
                   m_msgFile, m_msgLine, m_msgLevel, stack, nullDeref,
                   crashed, told>>

\* LOGGER.setTempCategory(c) in the body of a block, where no AutoEnd takes
\* a LOG_CAT(c)
BlockSetTempCategory(t, c) ==
    /\ ~crashed
    /\ Depth(t) > 0
    /\ Top(t).kind = "block"
    /\ Top(t).pc = "body"
    /\ Len(Top(t).obs.cats) < 1
    /\ m_tempCategory' = SetTempCategory(t, c)
    /\ stack' = SetTop(t, [Top(t) EXCEPT !.obs.cats = Append(@, c)])
    /\ NoLog /\ NoneLeaves
    /\ UNCHANGED <<logsys, minLogLevel, level, m_composer, m_category,
                   m_msgFile, m_msgLine, m_msgLevel, nullDeref, crashed, told>>

\* a faulty complete(): m_obj is left pointing at the logger
CompleteHandle_KeepsObj(h) == h

\* BlockEnd::complete, line 343: m_obj->commit(); m_obj = nullptr;
CompleteHandle(h) == [h EXCEPT !.m_obj = FALSE]

\* the for iteration expression: the body reached its natural end
BlockComplete(t) ==
    /\ ~crashed
    /\ Depth(t) > 0
    /\ Top(t).kind = "block"
    /\ Top(t).pc = "body"
    /\ Commit(t, Top(t))
    /\ stack' = SetTop(t, [CompleteHandle(Committed(Top(t))) EXCEPT !.pc = "cond"])
    /\ NoneLeaves
    /\ UNCHANGED <<logsys, minLogLevel, level, m_category, m_msgFile, m_msgLine,
                   m_msgLevel, nullDeref, crashed, told>>

\* a faulty BlockEnd: it has a destructor that commits as AutoEnd's does
BlockUnwind_Commits(t) ==
    /\ ~crashed
    /\ Depth(t) > 0
    /\ Top(t).kind = "block"
    /\ Top(t).pc = "body"
    /\ Commit(t, Top(t))
    /\ stack' = Pop(t)
    /\ Leaves(t, Committed(Top(t)), "abnormal")
    /\ UNCHANGED <<logsys, minLogLevel, level, m_category, m_msgFile, m_msgLine,
                   m_msgLevel, nullDeref, crashed, told>>

\* the body throws: BlockEnd has no destructor, the for statement is left
\* without its iteration expression
BlockUnwind(t) ==
    /\ ~crashed
    /\ Depth(t) > 0
    /\ Top(t).kind = "block"
    /\ Top(t).pc = "body"
    /\ stack' = Pop(t)
    /\ Leaves(t, Top(t), "abnormal")
    /\ NoLog
    /\ UNCHANGED <<logsys, minLogLevel, level, m_composer, m_category,
                   m_tempCategory, m_msgFile, m_msgLine, m_msgLevel,
                   nullDeref, crashed, told>>

(* ----- BlockEnd used by hand: BlockEnd b(LOGGER, file, line, lvl); ----- *)
RawCtor(t, site) == Construct(t, "raw", "raw", site)

\* LOGGER << v while b is in scope
RawShift(t) ==
    /\ ~crashed
    /\ Depth(t) > 0
    /\ Top(t).kind = "raw"
    /\ Top(t).obs.n < MaxVals
    /\ Len(m_composer[t]) < MaxText
    /\ m_composer' = LoggerShift(t, NextValue(t))
    /\ stack' = SetTop(t, [Top(t) EXCEPT !.obs.n = @ + 1])
    /\ NoLog /\ NoneLeaves
    /\ UNCHANGED <<logsys, minLogLevel, level, m_category, m_tempCategory,
                   m_msgFile, m_msgLine, m_msgLevel, nullDeref, crashed, told>>

\* what a call through the null m_obj may do: the process dies in it, or
\* commit() runs as on the only Logger there is
NullCallOutcomes == {"dies", "runs"}

\* b.complete(), line 343: m_obj->commit(); m_obj = nullptr; with nothing
\* that checks m_obj. A call through a null m_obj is undefined behaviour
RawComplete(t, outcome) ==
    /\ ~crashed
    /\ Depth(t) > 0
    /\ Top(t).kind = "raw"
    /\ Top(t).obs.calls < MaxCalls
    /\ LET h == [Top(t) EXCEPT !.obs.calls = @ + 1]
       IN IF Top(t).m_obj
            THEN /\ outcome = "runs"
                 /\ Commit(t, h)
                 /\ stack' = SetTop(t, CompleteHandle(Committed(h)))
                 /\ UNCHANGED <<nullDeref, crashed>>
            ELSE /\ nullDeref' = TRUE
                 /\ IF outcome = "dies"
                      THEN /\ crashed' = TRUE
                           /\ NoLog
                           /\ UNCHANGED <<m_tempCategory, m_composer, stack>>
                      ELSE /\ crashed' = crashed
                           /\ Commit(t, h)
                           /\ stack' = SetTop(t, CompleteHandle(Committed(h)))
    /\ NoneLeaves
    /\ UNCHANGED <<logsys, minLogLevel, level, m_category, m_msgFile, m_msgLine,
                   m_msgLevel, told>>

\* b goes out of scope; BlockEnd has no destructor
RawEnd(t) ==
    /\ ~crashed
    /\ Depth(t) > 0
    /\ Top(t).kind = "raw"
    /\ stack' = Pop(t)
    /\ Leaves(t, Top(t), "normal")
    /\ NoLog
    /\ UNCHANGED <<logsys, minLogLevel, level, m_composer, m_category,
                   m_tempCategory, m_msgFile, m_msgLine, m_msgLevel,
                   nullDeref, crashed, told>>

(* ----- the category API ----- *)
\* Logger::setCategory, lines 265-267
SetCategory(t, c) ==
    /\ ~crashed
    /\ InUserCode(t)
    /\ m_category' = [m_category EXCEPT ![t] = c]
    /\ told' = [told EXCEPT ![t] = c]
    /\ NoLog /\ NoneLeaves
    /\ UNCHANGED <<logsys, minLogLevel, level, m_composer, m_tempCategory,
                   m_msgFile, m_msgLine, m_msgLevel, stack, nullDeref,
                   crashed>>

\* the condition of LOG_CATEGORY, line 411
LogCategoryGuard == minLogLevel >= level

\* LOG_CATEGORY(c), line 411:
\* if(FALCON_MIN_LOG_LEVEL >= LOGGER.level()){LOGGER.setCategory(c);}
LOG_CATEGORY(t, c) ==
    /\ ~crashed
    /\ InUserCode(t)
    /\ m_category' = IF LogCategoryGuard
                        THEN [m_category EXCEPT ![t] = c]
                        ELSE m_category
    /\ told' = [told EXCEPT ![t] = c]
    /\ NoLog /\ NoneLeaves
    /\ UNCHANGED <<logsys, minLogLevel, level, m_composer, m_tempCategory,
                   m_msgFile, m_msgLine, m_msgLevel, stack, nullDeref,
                   crashed>>

(* ----- LogSystem ----- *)
\* LogSystem::level(l): any thread sets the run-time threshold
SetRuntimeLevel(l) ==
    /\ ~crashed
    /\ l # level
    /\ level' = l
    /\ NoLog /\ NoneLeaves
    /\ UNCHANGED <<logsys, minLogLevel, m_composer, m_category, m_tempCategory,
                   m_msgFile, m_msgLine, m_msgLevel, stack, nullDeref,
                   crashed, told>>

\* what belongs to the threads' composition and to the handles
composing ==
    <<handed, m_composer, m_category, m_tempCategory, m_msgFile, m_msgLine,
      m_msgLevel, stack, nullDeref, crashed, gone, told>>

(* ----- LogSystem: queue, registry and dispatch ----- *)
\* the message LogSystem::log() queues: what commit() passes, the committing
\* thread, the number of the message among those of its thread and the
\* listeners registered at that moment
QueuedMessage(t, site, c) ==
    [file |-> site.file, line |-> site.line, level |-> site.lvl,
     category |-> IF c = "" THEN m_category[t] ELSE c,
     text |-> Append(m_composer[t], Value(t, 1, emitted[t] + 1)),
     thread |-> t, seq |-> emitted[t] + 1, attached |-> registry]

\* a faulty log(): the message goes to the front of the queue
Enqueue_Front(msg) == <<msg>> \o queue

\* LogSystem::log(): the message goes to the end of the queue
Enqueue(msg) == Append(queue, msg)

\* LOG(lvl) << LOG_CAT(c) << v; run from its first to its last step by a
\* thread with no statement open: AutoEnd's constructor, the two <<, and
\* ~AutoEnd with commit() and log(). With c = "" it is LOG(lvl) << v;
LogStatement(t, site, c) ==
    /\ ~crashed
    /\ Depth(t) = 0
    /\ emitted[t] < MaxMsgs
    /\ Gate(site.lvl)
    /\ SetPending(t, site)
    /\ queue' = Enqueue(QueuedMessage(t, site, c))
    /\ m_composer' = ReadyStream(t)
    /\ m_tempCategory' = TempCategoryAfterCommit(t)
    /\ emitted' = [emitted EXCEPT ![t] = @ + 1]
    /\ UNCHANGED <<minLogLevel, level, handed, m_category, stack, nullDeref,
                   crashed, gone, told, registry, lsLevel, lsCategory,
                   received, m_proxy, m_proxyBaseLevel, installed, promise,
                   raised,
                   snapshotAt>>

\* a listener takes a message that passes its level threshold and its
\* category filter
Accepts(l, msg) ==
    /\ lsLevel[l] >= msg.level
    /\ l \in DOMAIN lsCategory => msg.category \in lsCategory[l]

\* the listeners the consumer serves with a message
Snapshot(msg) == IF snapshotAt = "enqueue" THEN msg.attached ELSE registry

\* a faulty dispatch: only the default listener is served
Takers_DefaultOnly(msg) == {l \in Snapshot(msg) \cap {Dflt} : Accepts(l, msg)}

\* the listeners served that take the message
Takers(msg) == {l \in Snapshot(msg) : Accepts(l, msg)}

\* TestListener::onMessage, logger.fut.cpp lines 27-29:
\* m_msgPromise.set_value(msg); set_value on a promise that holds a value
\* throws std::future_error
PromiseSetValue(msg) ==
    IF promise = NoMessage
       THEN [promise |-> msg, throws |-> FALSE]
       ELSE [promise |-> promise, throws |-> TRUE]

\* the consumer takes the oldest message and calls onMessage of every
\* registered listener that accepts it; an exception that leaves an
\* onMessage is caught and counted
Dispatch ==
    /\ ~crashed
    /\ queue # <<>>
    /\ LET msg == Head(queue)
           takers == Takers(msg)
       IN  /\ received' = [l \in Listeners |->
                              IF l \in takers THEN Append(received[l], msg)
                                              ELSE received[l]]
           /\ promise' = IF Catcher \in takers
                            THEN PromiseSetValue(msg).promise
                            ELSE promise
           /\ raised' = IF Catcher \in takers /\ PromiseSetValue(msg).throws
                           THEN raised + 1
                           ELSE raised
    /\ queue' = Tail(queue)
    /\ UNCHANGED <<composing, minLogLevel, level, registry, lsLevel,
                   lsCategory, m_proxy, m_proxyBaseLevel, installed, emitted,
                   snapshotAt>>

\* LogSystem::addListener
AddListener(l) == registry \cup {l}

\* a faulty removal: the listener stays registered
RemoveListener_Stays(l) == registry

\* Listener::detach / removal of a listener from the registry
RemoveListener(l) == registry \ {l}

\* LoggerTest::SetUp, logger.fut.cpp lines 37-41: a new TestListener is added
SetUp ==
    /\ ~crashed
    /\ Catcher \notin registry
    /\ received[Catcher] = <<>>
    /\ registry' = AddListener(Catcher)
    /\ UNCHANGED <<composing, minLogLevel, level, queue, lsLevel, lsCategory,
                   received, m_proxy, m_proxyBaseLevel, installed, promise,
                   raised, emitted,
                   snapshotAt>>

\* LoggerTest::TearDown, logger.fut.cpp lines 43-47: m_catcher->detach()
TearDown ==
    /\ ~crashed
    /\ Catcher \in registry
    /\ registry' = RemoveListener(Catcher)
    /\ UNCHANGED <<composing, minLogLevel, level, queue, lsLevel, lsCategory,
                   received, m_proxy, m_proxyBaseLevel, installed, promise,
                   raised, emitted,
                   snapshotAt>>

(* ----- Logger::categoryFilter / Logger::clearFilter, lines 301-302 ----- *)
\* a faulty clearFilter: the default listener keeps the lowered level
RestoredLevels_Keeps == lsLevel

\* clearFilter gives the default listener the level saved at the install
RestoredLevels == [lsLevel EXCEPT ![Dflt] = m_proxyBaseLevel]

\* the state clearFilter leaves: the filter's listener removed, the default
\* listener's level restored from m_proxyBaseLevel, the general level set
\* back to what the default listener was lowered to
Cleared ==
    IF m_proxy = NoListener
       THEN [registry |-> registry, lsLevel |-> lsLevel, level |-> level,
             base |-> m_proxyBaseLevel]
       ELSE [registry |-> RemoveListener(m_proxy), lsLevel |-> RestoredLevels,
             level |-> lsLevel[Dflt], base |-> m_proxyBaseLevel]

\* Logger::clearFilter
ClearFilter ==
    /\ ~crashed
    /\ registry' = Cleared.registry
    /\ lsLevel' = Cleared.lsLevel
    /\ level' = Cleared.level
    /\ m_proxy' = NoListener
    /\ UNCHANGED <<composing, minLogLevel, queue, lsCategory, received,
                   m_proxyBaseLevel, installed, promise, raised, emitted,
                   snapshotAt>>

\* the more permissive of two levels
MaxLevel(a, b) == IF a >= b THEN a ELSE b

\* Logger::categoryFilter(line, l): a filter that is active is cleared first;
\* then the default listener is lowered to the general level, the general
\* level is raised to l if it is below, and a new listener filtered by
\* category at level l is registered
CategoryFilter(f, l) ==
    /\ ~crashed
    /\ installed.n < MaxInstalls
    /\ LET p == Proxy(installed.n + 1)
       IN  /\ m_proxyBaseLevel' = Cleared.lsLevel[Dflt]
           /\ lsLevel' = [Cleared.lsLevel EXCEPT ![Dflt] = Cleared.level,
                                                 ![p] = l]
           /\ level' = MaxLevel(Cleared.level, l)
           /\ lsCategory' = [q \in DOMAIN lsCategory \cup {p} |->
                                 IF q = p THEN f ELSE lsCategory[q]]
           /\ registry' = Cleared.registry \cup {p}
           /\ m_proxy' = p
           /\ installed' = [n |-> installed.n + 1,
                            dfltLevel |-> IF m_proxy = NoListener
                                             THEN lsLevel[Dflt]
                                             ELSE installed.dfltLevel,
                            level |-> Cleared.level,
                            replaced |-> m_proxy]
    /\ UNCHANGED <<composing, minLogLevel, queue, received, promise, raised,
                   emitted,
                   snapshotAt>>

(* ----- the program: the call sites of one thread, with nesting and     ----- *)
(* ----- exceptions, while the run-time threshold changes under it       ----- *)
Next ==
    \/ \E site \in SitesOf(Main) : Depth(Main) = 0 /\ AutoEndCtor(Main, site)
    \/ Depth(Main) > 0 /\ AutoEndCtor(Main, InnerSite(Main))
    \/ AutoEndShift(Main)
    \/ \E c \in TempCatsOf(Main) :
           Depth(Main) = 1 /\ AutoEndShiftCategory(Main, c)
    \/ StatementEnd(Main)
    \/ StatementUnwind(Main)
    \/ \E site \in SitesOf(Main) : Depth(Main) = 0 /\ BlockEndCtor(Main, site)
    \/ BlockTest(Main)
    \/ BlockShift(Main)
    \/ StrayShift(Main)
    \/ \E c \in TempCatsOf(Main) \ {""} : BlockSetTempCategory(Main, c)
    \/ BlockComplete(Main)
    \/ BlockUnwind(Main)
    \/ \E c \in CatsOf(Main) : SetCategory(Main, c)
    \/ \E c \in CatsOf(Main) : LOG_CATEGORY(Main, c)
    \/ \E l \in RuntimeLevels : SetRuntimeLevel(l)

Spec == Init /\ [][Next]_vars

(* ----- two threads run statements side by side ----- *)
NextMT ==
    \/ \E t \in Threads : \E site \in SitesOf(t) :
           Depth(t) = 0 /\ AutoEndCtor(t, site)
    \/ \E t \in Threads : AutoEndShift(t)
    \/ \E t \in Threads : \E c \in TempCatsOf(t) : AutoEndShiftCategory(t, c)
    \/ \E t \in Threads : StatementEnd(t)
    \/ \E t \in Threads : \E c \in CatsOf(t) : SetCategory(t, c)
    \/ \E l \in RuntimeLevels : SetRuntimeLevel(l)

SpecMT == Init /\ [][NextMT]_vars

(* ----- statements whose operands set the temporary category ----- *)
NextCat ==
    \/ \E site \in SitesOf(Main) : Depth(Main) = 0 /\ AutoEndCtor(Main, site)
    \/ AutoEndShift(Main)
    \/ \E c \in TempCatsOf(Main) \ {""} : AutoEndShiftCategory(Main, c)
    \/ \E c \in CalledCatsOf(Main) \cup (TempCatsOf(Main) \ {""}) :
           OperandSetTempCategory(Main, c)
    \/ StatementEnd(Main)
    \/ \E c \in CatsOf(Main) : SetCategory(Main, c)
    \/ \E l \in RuntimeLevels : SetRuntimeLevel(l)

SpecCat == Init /\ [][NextCat]_vars

(* ----- a thread drives a BlockEnd by hand ----- *)
NextRaw ==
    \/ \E site \in SitesOf(Main) : Depth(Main) = 0 /\ RawCtor(Main, site)
    \/ RawShift(Main)
    \/ \E outcome \in NullCallOutcomes : RawComplete(Main, outcome)
    \/ RawEnd(Main)
    \/ StrayShift(Main)
    \/ \E c \in CatsOf(Main) : SetCategory(Main, c)
    \/ \E l \in RuntimeLevels : SetRuntimeLevel(l)

SpecRaw == Init /\ [][NextRaw]_vars

(* ----- one thread installs and clears category filters while it logs ----- *)
NextFilter ==
    \/ \E f \in Filters : CategoryFilter(f, LLDEBUG)
    \/ ClearFilter
    \/ \E l \in RuntimeLevels : SetRuntimeLevel(l)
    \/ \E site \in {x \in SitesOf(Main) : x.lvl = LLWARN} :
           \E c \in TempCatsOf(Main) : LogStatement(Main, site, c)
    \/ Dispatch

SpecFilter == InitLogSystem /\ [][NextFilter]_vars

(* ----- two threads log while the test fixture attaches and detaches ----- *)
(* ----- its listener and the consumer dispatches                     ----- *)
NextDispatch ==
    \/ \E t \in Threads : \E c \in TempCatsOf(t) \ {""} :
           \E site \in {x \in SitesOf(t) : x.lvl = LLWARN} :
               LogStatement(t, site, c)
    \/ SetUp
    \/ TearDown
    \/ Dispatch

SpecDispatch == InitLogSystem /\ [][NextDispatch]_vars

(* ----- the test: one thread logs, the fixture attaches and detaches  ----- *)
(* ----- its listener, the consumer thread runs whenever a message     ----- *)
(* ----- waits                                                         ----- *)
NextDeliver ==
    \/ \E site \in SitesOf(Main) : \E c \in TempCatsOf(Main) :
           LogStatement(Main, site, c)
    \/ SetUp
    \/ TearDown
    \/ Dispatch

SpecDeliver == InitLogSystem /\ [][NextDeliver]_vars /\ WF_vars(Dispatch)

(***************************************************************************)
(* Properties                                                              *)
(***************************************************************************)

\* C1: a statement or a block opened at level L is open exactly when the
\* build-time minimum and the run-time threshold are both at least L at the
\* moment it is opened, and every message handed to LogSystem::log() comes
\* from a handle for which both held when it was opened.
C1_GateDecidesOpen ==
    /\ \A t \in Threads : \A i \in 1..Depth(t) :
           stack[t][i].gate <=> stack[t][i].obs.allowed
    /\ gone # NoHandle => (gone.gate <=> gone.allowed)
    /\ handed # NoMessage => handed.obs.allowed

\* C1: an open statement holds a closed one, closed by the run-time
\* threshold alone, and a statement opened at exactly the threshold is open
C1_Witness ==
    /\ Depth(Main) = 2
    /\ stack[Main][1].gate
    /\ ~stack[Main][2].gate
    /\ minLogLevel >= stack[Main][2].lvl
    /\ level = stack[Main][1].lvl

\* C2: a statement that is open commits exactly one message when it goes out
\* of scope, a closed one none, and the text of the message is the values
\* streamed through that statement, in order, and nothing else.
C2_OneMessageOfOwnValues ==
    /\ (gone.kind = "stmt" /\ gone.gate) =>
           (gone.commits = 1 /\ handed # NoMessage)
    /\ (gone.kind = "stmt" /\ ~gone.gate) => handed = NoMessage
    /\ (handed # NoMessage /\ handed.obs.kind = "stmt") =>
           handed.text = Values(handed.thread, handed.obs.depth, handed.obs.n)

\* C3: the message of a statement carries the standing category of its thread
\* when the statement set no override, the override when it set one, and the
\* commit leaves the standing category as it was.
C3_CategoryOfStatement ==
    (handed # NoMessage /\ handed.obs.kind = "stmt") =>
        /\ handed.category = IF handed.obs.cats = <<>>
                                THEN handed.obs.standing
                                ELSE handed.obs.cats[1]
        /\ m_category[handed.thread] = handed.obs.standing

\* C4: the standing category of a thread is the name that thread last passed
\* to setCategory or LOG_CATEGORY, whatever the build-time minimum and the
\* run-time threshold are.
C4_CategoryApiReplaces ==
    \A t \in Threads : m_category[t] = told[t]

\* C5 as stated: a LOG_BLOCK left at the natural end of its for statement ran
\* its body once and committed one message if its gate was open when the
\* BlockEnd was constructed, and ran nothing and committed nothing otherwise.
C5_BodyOnceIfOpenAtEntry ==
    (gone.kind = "block" /\ gone.exit = "normal") =>
        IF gone.gate
           THEN gone.bodyRuns = 1 /\ gone.commits = 1
           ELSE gone.bodyRuns = 0 /\ gone.commits = 0

\* C5 amended: the body of a LOG_BLOCK runs once and one message is committed
\* at its natural end if the gate is open when the BlockEnd is constructed
\* and the threshold test of the for condition passes when it is first
\* evaluated, whatever the threshold becomes while the body runs; otherwise
\* the body never runs and nothing is committed. No body runs twice.
C5_BodyOnceIfAdmitted ==
    /\ \A t \in Threads : \A i \in 1..Depth(t) :
           stack[t][i].kind = "block" =>
               /\ stack[t][i].obs.bodyRuns <= 1
               /\ stack[t][i].obs.commits <= stack[t][i].obs.bodyRuns
               /\ stack[t][i].obs.bodyRuns = 1 =>
                      (stack[t][i].gate /\ stack[t][i].obs.admitted)
    /\ (gone.kind = "block" /\ gone.exit = "normal") =>
           IF gone.gate /\ gone.admitted
              THEN gone.bodyRuns = 1 /\ gone.commits = 1
              ELSE gone.bodyRuns = 0 /\ gone.commits = 0

\* C5: a block ran its body once and committed one message although the
\* threshold was lowered below its level while the body ran
C5_Witness ==
    /\ gone.kind = "block"
    /\ gone.exit = "normal"
    /\ gone.bodyRuns = 1
    /\ gone.commits = 1
    /\ gone.n > 0
    /\ level < gone.lvl

\* C6: a block whose body is left by an exception commits nothing, and no
\* message is handed over as it is left; a statement that is open and is
\* left by an exception still commits its one message.
C6_AbnormalExit ==
    (gone # NoHandle /\ gone.exit = "abnormal") =>
        /\ gone.kind = "block" => (gone.commits = 0 /\ handed = NoMessage)
        /\ (gone.kind = "stmt" /\ gone.gate) =>
               /\ gone.commits = 1
               /\ handed # NoMessage
               /\ handed.thread = gone.thread

\* C6: a block that had streamed values is left by an exception
C6_Witness ==
    /\ gone.kind = "block"
    /\ gone.exit = "abnormal"
    /\ gone.bodyRuns = 1
    /\ gone.n > 0
    /\ handed = NoMessage

\* C7: with statements of two threads interleaved, the composer, the pending
\* file, line and level, the standing and the temporary category of a thread
\* hold only what that thread put there, and a message is made of the values
\* of its own statement, the call site of its own statement and a category
\* named by its own thread.
C7_ThreadIsolation ==
    /\ \A t \in Threads :
           /\ \A i \in 1..Len(m_composer[t]) : m_composer[t][i][1] = t
           /\ m_category[t] = told[t]
           /\ m_category[t] \in CatsOf(t) \cup {""}
           /\ m_tempCategory[t] \in TempCatsOf(t)
           /\ m_msgLine[t] \in {site.line : site \in SitesOf(t)} \cup {0}
    /\ handed # NoMessage =>
           /\ handed.text = Values(handed.thread, 1, handed.obs.n)
           /\ handed.file = handed.obs.file
           /\ handed.line = handed.obs.line
           /\ handed.level = handed.obs.lvl
           /\ handed.category = IF handed.obs.cats = <<>> \/ handed.obs.cats[1] = ""
                                   THEN told[handed.thread]
                                   ELSE handed.obs.cats[1]

\* C7: one thread commits a message of its own values under its own override
\* while the other is in the middle of a statement with an override and
\* values of its own
C7_Witness ==
    /\ handed # NoMessage
    /\ handed.thread # Main
    /\ handed.obs.n > 1
    /\ handed.category \in TempCatsOf(handed.thread) \ {""}
    /\ Depth(Main) = 1
    /\ stack[Main][1].gate
    /\ Len(m_composer[Main]) > 0
    /\ m_tempCategory[Main] # ""
    /\ m_category[Main] # ""

\* C8: while a statement of a thread is open, whatever else is opened on that
\* thread, the pending file, line and level stay those of that statement and
\* the composer ends with the values streamed through it.
C8_FirstStatementIntact ==
    \A t \in Threads :
        (Depth(t) >= 1 /\ stack[t][1].kind = "stmt" /\ stack[t][1].gate) =>
            /\ m_msgFile[t] = stack[t][1].obs.file
            /\ m_msgLine[t] = stack[t][1].obs.line
            /\ m_msgLevel[t] = stack[t][1].lvl
            /\ Len(m_composer[t]) >= stack[t][1].obs.n
            /\ \A k \in 1..stack[t][1].obs.n :
                   m_composer[t][Len(m_composer[t]) - stack[t][1].obs.n + k]
                       = Value(t, 1, k)

\* C9: complete() is never called through a null m_obj, and no BlockEnd
\* commits more than one message, a BlockEnd closed at construction none.
C9_SecondCompleteHarmless ==
    /\ ~nullDeref
    /\ \A t \in Threads : \A i \in 1..Depth(t) :
           stack[t][i].kind = "raw" =>
               /\ stack[t][i].obs.commits <= 1
               /\ ~stack[t][i].gate => stack[t][i].obs.commits = 0

\* C10: in a build with FALCON_MIN_LOG_LEVEL = LLDISABLE every statement and
\* every block is closed, no block body runs and no message is handed over,
\* whatever the run-time threshold is.
C10_DisabledBuildLogsNothing ==
    minLogLevel = LLDISABLE =>
        /\ handed = NoMessage
        /\ \A t \in Threads : \A i \in 1..Depth(t) :
               /\ ~stack[t][i].gate
               /\ ~stack[t][i].m_obj
               /\ stack[t][i].pc # "body"
               /\ stack[t][i].obs.commits = 0
        /\ gone # NoHandle => (~gone.gate /\ gone.commits = 0 /\ gone.bodyRuns = 0)

\* C10: in a disabled build a statement through which values were streamed
\* has ended with the run-time threshold at its most verbose
C10_Witness ==
    /\ minLogLevel = LLDISABLE
    /\ level = LLTRACE
    /\ gone.kind = "stmt"
    /\ gone.n > 0

\* C11: whatever calls of categoryFilter and clearFilter one thread makes,
\* at most one listener made by categoryFilter is registered, it is the one
\* of the last install, and the listener of every earlier install is no
\* longer registered.
C11_OneFilterListener ==
    LET proxies == registry \ {Dflt, Catcher}
    IN  /\ Cardinality(proxies) <= 1
        /\ proxies = IF m_proxy = NoListener THEN {} ELSE {m_proxy}
        /\ m_proxy # NoListener => m_proxy = Proxy(installed.n)
        /\ \A n \in 1..(installed.n - 1) : Proxy(n) \notin registry

\* C11: a filter was installed while an earlier one was active and had
\* received a message; only the later one is registered
C11_Witness ==
    /\ installed.n = 2
    /\ installed.replaced = Proxy(1)
    /\ received[Proxy(1)] # <<>>
    /\ m_proxy = Proxy(2)
    /\ Proxy(1) \notin registry
    /\ Proxy(2) \in registry

\* C12: the step that clears an active filter leaves the default listener
\* with the level it had before the filter was installed and the filter's
\* listener out of the registry, and a listener that was not registered when a
\* message was committed and is not registered now is not given the message.
C12_InstallClearRoundTrip ==
    [][ /\ (m_proxy # NoListener /\ m_proxy' = NoListener) =>
               /\ lsLevel'[Dflt] = installed.dfltLevel
               /\ m_proxy \notin registry'
        /\ \A l \in Listeners :
               received'[l] # received[l] =>
                   /\ queue # <<>>
                   /\ l \in registry \cup Head(queue).attached ]_vars

\* C12: a filter lowered the default listener and received a message, was
\* cleared, and a later message that its category and level accept went to
\* the default listener only, whose level is again what it was
C12_Witness ==
    /\ installed.n = 1
    /\ m_proxy = NoListener
    /\ Proxy(1) \notin registry
    /\ installed.level < installed.dfltLevel
    /\ lsLevel[Dflt] = installed.dfltLevel
    /\ Len(received[Proxy(1)]) = 1
    /\ Len(received[Dflt]) = 2
    /\ Proxy(1) \notin received[Dflt][2].attached
    /\ received[Dflt][2].category \in lsCategory[Proxy(1)]
    /\ lsLevel[Proxy(1)] >= received[Dflt][2].level

\* C13: in the sequence of messages a listener received, the messages of one
\* thread are in the order that thread committed them.
C13_PerThreadOrder ==
    \A l \in Listeners : \A i \in 1..Len(received[l]) :
        \A j \in (i + 1)..Len(received[l]) :
            received[l][i].thread = received[l][j].thread =>
                received[l][i].seq < received[l][j].seq

\* C13: the default listener received two messages of one thread in their
\* order with a message of the other thread between them
C13_Witness ==
    /\ Len(received[Dflt]) >= 3
    /\ received[Dflt][1].thread = received[Dflt][3].thread
    /\ received[Dflt][2].thread # received[Dflt][1].thread
    /\ received[Dflt][1].seq = 1
    /\ received[Dflt][3].seq = 2

\* the message number k of thread t waits, and listener l was registered
\* when it was committed and accepts it
OwedTo(l, t, k) ==
    \E i \in 1..Len(queue) :
        /\ queue[i].thread = t
        /\ queue[i].seq = k
        /\ l \in queue[i].attached
        /\ Accepts(l, queue[i])

\* onMessage of listener l was called with the message number k of thread t
Got(l, t, k) ==
    \E i \in 1..Len(received[l]) :
        received[l][i].thread = t /\ received[l][i].seq = k

\* what a listener received is what was committed: the value of its own
\* statement as text, a category of its own thread, and the same record at
\* every listener that received it
DeliveredAsCommitted ==
    \A l \in Listeners : \A i \in 1..Len(received[l]) :
        LET m == received[l][i]
        IN  /\ m.text = <<Value(m.thread, 1, m.seq)>>
            /\ m.category \in TempCatsOf(m.thread)
            /\ m.line \in {site.line : site \in SitesOf(m.thread)}
            /\ \A l2 \in Listeners : \A j \in 1..Len(received[l2]) :
                   (received[l2][j].thread = m.thread
                        /\ received[l2][j].seq = m.seq) => received[l2][j] = m

\* C14 as stated: a committed message is in the end delivered to every
\* listener that is registered when it is committed and accepts it, the
\* default listener and the test's listener alike, with the text and the
\* category it was committed with.
C14_DeliveredToAttached ==
    /\ []DeliveredAsCommitted
    /\ \A l \in {Dflt, Catcher} : \A k \in 1..MaxMsgs :
           OwedTo(l, Main, k) ~> Got(l, Main, k)

\* C14 amended: a committed message is in the end delivered, with the text
\* and the category it was committed with, to every listener that is
\* registered when it is committed, accepts it and is still registered when
\* the consumer dispatches it; a listener detached in between is left out.
C14_DeliveredToStillAttached ==
    /\ []DeliveredAsCommitted
    /\ \A l \in {Dflt, Catcher} : \A k \in 1..MaxMsgs :
           OwedTo(l, Main, k) ~> (Got(l, Main, k) \/ l \notin registry)

\* C14: the default listener and the test's listener both received the
\* second message of the thread, committed after the listener was attached
C14_Witness ==
    /\ Got(Dflt, Main, 2)
    /\ Got(Catcher, Main, 2)
    /\ ~Got(Catcher, Main, 1)
    /\ Catcher \in registry

\* C15: the message of a statement during which several category overrides
\* were applied carries the first of them.
C15_FirstOverrideWins ==
    (handed # NoMessage /\ handed.obs.kind = "stmt"
        /\ Len(handed.obs.cats) >= 2) =>
            handed.category = handed.obs.cats[1]

\* C16: a thread with no statement and no block open has no temporary
\* category set.
C16_TempCategoryUnsetWhenIdle ==
    \A t \in Threads : Depth(t) = 0 => m_tempCategory[t] = ""

\* C17: constructing a statement whose gate is closed, streaming a value or a
\* LOG_CAT through it and destroying it leave the composer, the temporary
\* and the standing category and the pending file, line and level of the
\* thread as they were, and hand no message over.
C17_ClosedStatementInert ==
    [][ \A t \in Threads :
          LET d == Len(stack[t])
              e == Len(stack'[t])
              onClosed == /\ d > 0
                          /\ stack[t][d].kind = "stmt"
                          /\ ~stack[t][d].gate
                          /\ stack'[t] # stack[t]
                          /\ e <= d
              builtClosed == /\ e = d + 1
                             /\ stack'[t][e].kind = "stmt"
                             /\ ~stack'[t][e].gate
          IN  (onClosed \/ builtClosed) =>
                  /\ m_composer'[t] = m_composer[t]
                  /\ m_tempCategory'[t] = m_tempCategory[t]
                  /\ m_category'[t] = m_category[t]
                  /\ m_msgFile'[t] = m_msgFile[t]
                  /\ m_msgLine'[t] = m_msgLine[t]
                  /\ m_msgLevel'[t] = m_msgLevel[t]
                  /\ handed' = NoMessage ]_vars

\* C17: a statement closed at construction has taken a LOG_CAT and a value
\* while the thread has a standing category and text left in the composer;
\* the composer, the temporary category and the pending file are untouched
C17_Witness ==
    /\ Depth(Main) = 1
    /\ stack[Main][1].kind = "stmt"
    /\ ~stack[Main][1].gate
    /\ stack[Main][1].obs.n >= 1
    /\ stack[Main][1].obs.cats # <<>>
    /\ stack[Main][1].obs.cats[1] # ""
    /\ m_tempCategory[Main] = ""
    /\ m_category[Main] # ""
    /\ Len(m_composer[Main]) = 1
    /\ m_msgFile[Main] # stack[Main][1].obs.file

\* C18: the promise of the capture listener holds the first message the
\* listener was given, and no call of its onMessage threw.
C18_LaterMessagesIgnored ==
    /\ received[Catcher] # <<>> => promise = received[Catcher][1]
    /\ raised = 0

\* C19: a message handed to LogSystem carries the file, the line and the
\* level given to the constructor of the statement or block that commits it.
C19_OwnFileLineLevel ==
    handed # NoMessage =>
        /\ handed.file = handed.obs.file
        /\ handed.line = handed.obs.line
        /\ handed.level = handed.obs.lvl

\* C20: when a statement or a block is constructed with its gate open the
\* composer of its thread is empty, and a message handed to LogSystem has as
\* many values in its text as were streamed through the handle that commits
\* it.
C20_ComposerEmptyAtOpen ==
    [][ /\ \A t \in Threads :
             LET e == Len(stack'[t])
             IN  (e = Len(stack[t]) + 1 /\ stack'[t][e].gate) =>
                     m_composer[t] = <<>>
        /\ handed' # NoMessage =>
               Len(handed'.text) = handed'.obs.n ]_vars

====
